---- MODULE Spec2Model ----
(***************************************************************************)
(* Model of src/src/index.ts: the scaffolding command line tool.           *)
(*                                                                         *)
(* JavaScript strings are sequences of one-character strings, so that      *)
(* trim, the regular expressions and the path functions are computed       *)
(* character by character.  A path on disk is a Location: the sequence of  *)
(* its components from the filesystem root.                                *)
(***************************************************************************)
EXTENDS Integers, Sequences, FiniteSets, TLC

(* ------------------------------ bounds --------------------------------- *)
\* longest input string given to formatTargetDir in SpecFormat
MaxLen == 3
\* largest total_count the search service reports
MaxTotal == 2
\* largest number of items the search service returns per request
MaxPerPage == 2

(* --------------------------- string helpers ---------------------------- *)
\* the value `undefined`; a tuple, so that it compares with every string
Undefined == <<"undefined">>

Whitespace == {" ", "\t"}

Lower == {"a","b","c","d","e","f","g","h","i","j","k","l","m",
          "n","o","p","q","r","s","t","u","v","w","x","y","z"}

Upper == {"A","B","C","D","E","F","G","H","I","J","K","L","M",
          "N","O","P","Q","R","S","T","U","V","W","X","Y","Z"}

Digit == {"0","1","2","3","4","5","6","7","8","9"}

LowerSeq == <<"a","b","c","d","e","f","g","h","i","j","k","l","m",
              "n","o","p","q","r","s","t","u","v","w","x","y","z">>

UpperSeq == <<"A","B","C","D","E","F","G","H","I","J","K","L","M",
              "N","O","P","Q","R","S","T","U","V","W","X","Y","Z">>

\* JavaScript truthiness of a string | undefined
Truthy(s) == s # Undefined /\ s # <<>>

RECURSIVE TrimStart(_)
TrimStart(s) ==
  IF s # <<>> /\ Head(s) \in Whitespace THEN TrimStart(Tail(s)) ELSE s

RECURSIVE TrimEnd(_)
TrimEnd(s) ==
  IF s # <<>> /\ s[Len(s)] \in Whitespace
  THEN TrimEnd(SubSeq(s, 1, Len(s) - 1)) ELSE s

\* String.prototype.trim
Trim(s) == TrimEnd(TrimStart(s))

\* s.replace(/\/+$/g, '')
RECURSIVE StripTrailingSlashes(_)
StripTrailingSlashes(s) ==
  IF s # <<>> /\ s[Len(s)] = "/"
  THEN StripTrailingSlashes(SubSeq(s, 1, Len(s) - 1)) ELSE s

\* String.prototype.toLowerCase on the letters A-Z
ToLowerChar(c) ==
  IF c \in Upper
  THEN LowerSeq[CHOOSE i \in 1..26 : UpperSeq[i] = c]
  ELSE c

ToLowerCase(s) == [i \in 1..Len(s) |-> ToLowerChar(s[i])]

\* s.replace(/[X]+/g, '-') where X is the set of characters satisfying
\* (c \in cls) = member: every maximal run of such characters becomes one '-'
RECURSIVE ReplaceRuns(_, _, _)
ReplaceRuns(s, cls, member) ==
  IF s = <<>> THEN <<>>
  ELSE IF (Head(s) \in cls) = member
       THEN LET rest == ReplaceRuns(Tail(s), cls, member)
            IN  IF Len(s) > 1 /\ ((s[2] \in cls) = member)
                THEN rest
                ELSE <<"-">> \o rest
       ELSE <<Head(s)>> \o ReplaceRuns(Tail(s), cls, member)

(* ------------------------- pure functions ------------------------------ *)
\* formatTargetDir with a fault: the trailing slashes are not stripped
formatTargetDirNoStrip(targetDir) ==
  IF targetDir = Undefined THEN Undefined ELSE Trim(targetDir)

\* targetDir?.trim().replace(/\/+$/g, '')
formatTargetDir(targetDir) ==
  IF targetDir = Undefined THEN Undefined
  ELSE StripTrailingSlashes(Trim(targetDir))

\* [a-z\d\-~]
NameFirst == Lower \cup Digit \cup {"-", "~"}
\* [a-z\d\-._~]
NameRest == NameFirst \cup {".", "_"}
\* [a-z\d\-*~]
ScopeFirst == NameFirst \cup {"*"}
\* [a-z\d\-*._~]
ScopeRest == ScopeFirst \cup {".", "_"}

Matches(s, first, rest) ==
  /\ Len(s) >= 1
  /\ s[1] \in first
  /\ \A i \in 2..Len(s) : s[i] \in rest

\* /^(?:@[a-z\d\-*~][a-z\d\-*._~]*\/)?[a-z\d\-~][a-z\d\-._~]*$/.test(name)
isValidPackageName(projectName) ==
  \/ Matches(projectName, NameFirst, NameRest)
  \/ /\ Len(projectName) >= 1
     /\ projectName[1] = "@"
     /\ \E k \in 2..Len(projectName) :
          /\ projectName[k] = "/"
          /\ Matches(SubSeq(projectName, 2, k - 1), ScopeFirst, ScopeRest)
          /\ Matches(SubSeq(projectName, k + 1, Len(projectName)),
                     NameFirst, NameRest)

\* trim, lower case, whitespace runs to '-', one leading [._] dropped,
\* runs outside [a-z\d\-~] to '-'
toValidPackageName(projectName) ==
  LET a == ToLowerCase(Trim(projectName))
      b == ReplaceRuns(a, Whitespace, TRUE)
      c == IF b # <<>> /\ Head(b) \in {".", "_"} THEN Tail(b) ELSE b
  IN  ReplaceRuns(c, NameFirst, FALSE)

(* ------------------------------ paths ---------------------------------- *)
\* index of the first '/' of s, or Len(s) + 1
FirstSlash(s) ==
  IF \E i \in 1..Len(s) : s[i] = "/"
  THEN CHOOSE i \in 1..Len(s) : s[i] = "/" /\ \A j \in 1..(i - 1) : s[j] # "/"
  ELSE Len(s) + 1

\* the non-empty components of a path string
RECURSIVE Components(_)
Components(s) ==
  IF s = <<>> THEN <<>>
  ELSE LET k == FirstSlash(s)
           head == SubSeq(s, 1, k - 1)
           rest == SubSeq(s, k + 1, Len(s))
       IN  (IF head = <<>> THEN <<>> ELSE <<head>>) \o Components(rest)

\* '.' components are dropped and '..' components go to the parent
RECURSIVE Normalize(_, _)
Normalize(base, comps) ==
  IF comps = <<>> THEN base
  ELSE IF Head(comps) = <<".">> THEN Normalize(base, Tail(comps))
  ELSE IF Head(comps) = <<".", ".">>
       THEN Normalize(IF base = <<>> THEN base
                      ELSE SubSeq(base, 1, Len(base) - 1), Tail(comps))
  ELSE Normalize(Append(base, Head(comps)), Tail(comps))

IsAbsolute(p) == p # <<>> /\ p[1] = "/"

\* the name of the working directory and process.cwd()
W == <<"w">>
cwd == <<W>>

\* path.join(dir, p): the two are concatenated, then normalized
pathJoin(dir, p) == Normalize(dir, Components(p))

\* the location the operating system (fs.existsSync, fs.readdirSync, the
\* git child process) gives a path string: absolute paths start at the
\* filesystem root, every other path at the working directory
Resolve(p) ==
  IF IsAbsolute(p) THEN Normalize(<<>>, Components(p))
  ELSE Normalize(cwd, Components(p))

\* path.basename(path.resolve())
Basename(loc) == IF loc = <<>> THEN <<>> ELSE loc[Len(loc)]

IsPrefix(a, b) == Len(a) <= Len(b) /\ SubSeq(b, 1, Len(a)) = a

Prefixes(loc) == {SubSeq(loc, 1, n) : n \in 1..Len(loc)}

(* ------------------------------ names ---------------------------------- *)
DotGit == <<".", "g", "i", "t">>
PackageJson == <<"p","a","c","k","a","g","e",".","j","s","o","n">>
PackageLock == <<"p","a","c","k","a","g","e","-","l","o","c","k",
                 ".","j","s","o","n">>
YarnLock == <<"y","a","r","n",".","l","o","c","k">>
\* an ordinary file of the user
F == <<"f">>
A == <<"a">>

defaultTargetDir == <<"m","y","-","p","r","o","j","e","c","t">>

(* --------------------------- template catalog -------------------------- *)
Null == <<"null">>

\* the name of the i-th repository of the account: t, tt, ttt, ...
RepoName(i) == [j \in 1..i |-> "t"]

Repo(i) ==
  [name |-> RepoName(i),
   description |-> IF i % 2 = 1 THEN Null ELSE <<"d">>,
   clone_url |-> <<"u">> \o RepoName(i)]

NoTemplate == [name |-> Undefined, description |-> Null, clone_url |-> Undefined]

Min(a, b) == IF a < b THEN a ELSE b

\* the response of GET /search/repositories: the request names no page, so
\* every request is answered with the first page
SearchResponse(total, pageSize) ==
  [items |-> [i \in 1..Min(total, pageSize) |-> Repo(i)],
   total_count |-> total]

Range(f) == {f[i] : i \in DOMAIN f}

(* ------------------------------- state --------------------------------- *)
VARIABLES
  pc,               \* where the program is
  serverTotal,      \* total_count of the search service
  pageSize,         \* items the search service returns per request
  argv,             \* [positional, template, t]: the parsed command line
  templates,        \* fetchTemplateRepositories.templates, then repoTemplates
  targetDir,        \* init.targetDir
  value,            \* the text typed so far at the ProjectName prompt
  overwrite,        \* result.overwrite: "undefined", "true" or "false"
  packageName,      \* result.packageName
  template,         \* result.template
  selectedTemplete, \* init.selectedTemplete
  fs,               \* the disk: location -> "dir" or "file"
  desc,             \* the parsed content of every package.json on disk
  message,          \* the last line printed
  fs0,              \* history: the disk when the program started
  log,              \* history: the filesystem mutations performed, in order
  asked,            \* history: the location OverwriteConfirm was asked about
  steps,            \* history: the prompt steps whose type was evaluated
  entered,          \* history: the prompts shown to the user
  aborted,          \* history: the user aborted a prompt
  fmtIn,            \* SpecFormat: the argument of formatTargetDir
  fmtOut            \* SpecFormat: its result

vars == <<pc, serverTotal, pageSize, argv, templates, targetDir, value,
          overwrite, packageName, template, selectedTemplete, fs, desc,
          message, fs0, log, asked, steps, entered, aborted, fmtIn, fmtOut>>

NoLoc == <<<<"none">>>>

(* ------------------------------ inputs --------------------------------- *)
\* the first positional argument
Positionals == {Undefined, A, <<"a", "/", " ">>}

\* the --template and -t flags
TemplateFlags ==
  {[template |-> Undefined, t |-> Undefined],
   [template |-> RepoName(1), t |-> Undefined],
   [template |-> Undefined, t |-> RepoName(2)],
   [template |-> <<>>, t |-> RepoName(1)],
   [template |-> <<"T">>, t |-> RepoName(1)],
   [template |-> <<>>, t |-> Undefined]}

\* what the user types at the ProjectName prompt
ProjectNameInputs ==
  {<<>>, A, <<" ", "a", "/">>, <<"/", "a">>, <<".">>, <<"a", "/", "f">>,
   <<"A", " ", "b">>, <<"a", "/", "a">>}

\* what the user types at the PackageName prompt (empty: the default is taken)
PackageNameInputs == {<<>>, <<"p", "k", "g">>, <<"B", "a", "d">>}

\* the files of a template repository besides .git
TemplateFiles == {PackageJson, PackageLock, YarnLock}

TemplateDescriptor ==
  [name |-> <<"t","e","m","p","l","a","t","e">>, other |-> <<"d","e","p","s">>]

DirScenarios ==
  {[present |-> FALSE, entries |-> {}]} \cup
  {[present |-> TRUE, entries |-> e] : e \in SUBSET {DotGit, F}}

SmallScenarios ==
  {[present |-> FALSE, entries |-> {}], [present |-> TRUE, entries |-> {F}]}

\* the nodes of a directory scenario
DirNodes(loc, sc) ==
  IF sc.present
  THEN (loc :> "dir") @@
       [q \in {Append(loc, n) : n \in sc.entries} |->
          IF q[Len(q)] = F THEN "file" ELSE "dir"]
  ELSE <<>>

(* --------------------------- the filesystem ---------------------------- *)
existsSyncAt(d, loc) == loc \in DOMAIN d

\* fs.existsSync(path)
existsSync(path) == existsSyncAt(fs, Resolve(path))

\* fs.readdirSync of a location
readdirSyncAt(d, loc) ==
  {q[Len(q)] :
     q \in {r \in DOMAIN d : Len(r) = Len(loc) + 1 /\ IsPrefix(loc, r)}}

\* the location is a regular file: fs.readdirSync throws ENOTDIR on it
IsFile(loc) == loc \in DOMAIN fs /\ fs[loc] = "file"

\* isEmpty with a fault: a directory holding only .git counts as non-empty
isEmptyStrict(path) ==
  Cardinality(readdirSyncAt(fs, Resolve(path))) = 0

\* files.length === 0 || (files.length === 1 && files[0] === '.git')
isEmpty(path) ==
  LET files == readdirSyncAt(fs, Resolve(path))
  IN  \/ Cardinality(files) = 0
      \/ (Cardinality(files) = 1 /\ files = {DotGit})

\* fs.rmSync(loc, { recursive: true, force: true })
rmSync(d, loc) == [q \in {r \in DOMAIN d : ~IsPrefix(loc, r)} |-> d[q]]

\* the descriptors of the package.json files left on disk
KeepDesc(d, onDisk) == [p \in (DOMAIN d) \cap (DOMAIN onDisk) |-> d[p]]

(* ---------------------------- the command line ------------------------- *)
\* formatTargetDir(argv._[0])
argTargetDir == formatTargetDir(argv.positional)

\* argv.template || argv.t
argTemplate == IF Truthy(argv.template) THEN argv.template ELSE argv.t

\* isValidTemplate with a fault: any flag value counts as valid
isValidTemplateAny == Truthy(argTemplate)

\* !!argTemplate && repoTemplates.some((t) => t.name === argTemplate)
isValidTemplate ==
  /\ Truthy(argTemplate)
  /\ \E i \in 1..Len(templates) : templates[i].name = argTemplate

\* targetDir === '.' ? path.basename(path.resolve()) : targetDir
getProjectName(dir) == IF dir = <<".">> THEN Basename(cwd) ELSE dir

\* the onState callback of the ProjectName prompt
onState(stateValue) ==
  LET f == formatTargetDir(stateValue)
  IN  IF Truthy(f) THEN f ELSE defaultTargetDir

\* repoTemplates.find((t) => t.name === argTemplate)
find(list, name) ==
  IF \E i \in 1..Len(list) : list[i].name = name
  THEN list[CHOOSE i \in 1..Len(list) :
              /\ list[i].name = name
              /\ \A j \in 1..(i - 1) : list[j].name # name]
  ELSE NoTemplate

(* ------------------------ the prompt sequence -------------------------- *)
Prompts == {"overwrite", "packageName", "template"}

\* the type of the template question
StepTemplate == IF isValidTemplate THEN "scaffold" ELSE "template"

\* the type of the packageName question
StepPackageName(dir) ==
  IF isValidPackageName(getProjectName(dir)) THEN StepTemplate
  ELSE "packageName"

\* overwriteChecker with a fault: a refusal does not throw
overwriteCheckerSilent(ov, dir) == StepPackageName(dir)

\* the type of the overwriteChecker question
overwriteChecker(ov, dir) ==
  IF ov = "false" THEN "cancelled" ELSE StepPackageName(dir)

\* the type of the overwrite question; readdirSync throws on a regular file
StepOverwrite(dir) ==
  IF ~existsSync(dir) THEN overwriteChecker("undefined", dir)
  ELSE IF IsFile(Resolve(dir)) THEN "failed"
  ELSE IF isEmpty(dir) THEN overwriteChecker("undefined", dir)
  ELSE "overwrite"

StepsUpTo(next) ==
  CASE next \in {"overwrite", "failed", "cancelled"} -> {"overwrite"}
    [] next = "packageName" -> {"overwrite", "packageName"}
    [] OTHER -> {"overwrite", "packageName", "template"}

MessageAt(next, old) ==
  CASE next = "failed" -> "ENOTDIR"
    [] next = "cancelled" -> "Operation cancelled"
    [] OTHER -> old

\* the flow moves on to `next` after an answer
Advance(next) ==
  /\ pc' = next
  /\ steps' = steps \cup StepsUpTo(next)
  /\ entered' = entered \cup ({next} \cap Prompts)
  /\ message' = MessageAt(next, message)

\* onCancel throws; the catch of init prints the message and returns
Cancel ==
  /\ pc' = "cancelled"
  /\ aborted' = TRUE
  /\ message' = "Operation cancelled"
  /\ UNCHANGED <<steps, entered, asked>>

flags == <<serverTotal, pageSize, argv, fs0, fmtIn, fmtOut>>
disk == <<fs, desc, log>>
answers == <<overwrite, packageName, template, selectedTemplete>>

(* ------------------------------- Init ---------------------------------- *)
\* the disk holds the working directory /w and, as the scenario says,
\* /w/a, /a and /w/my-project; no package.json exists yet
InitDisk(s1, s2, s3) ==
  DirNodes(<<W, A>>, s1) @@ DirNodes(<<A>>, s2) @@
  DirNodes(<<W, defaultTargetDir>>, s3) @@ (cwd :> "dir")

InitProgram ==
  /\ templates = <<>>
  /\ targetDir = Undefined
  /\ value = <<>>
  /\ overwrite = "undefined"
  /\ packageName = Undefined
  /\ template = NoTemplate
  /\ selectedTemplete = NoTemplate
  /\ desc = <<>>
  /\ message = ""
  /\ log = <<>>
  /\ asked = NoLoc
  /\ steps = {}
  /\ entered = {}
  /\ aborted = FALSE

Init ==
  /\ pc = "fetch"
  /\ serverTotal \in 0..MaxTotal
  /\ pageSize \in 1..MaxPerPage
  /\ \E p \in Positionals, f \in TemplateFlags :
       argv = [positional |-> p, template |-> f.template, t |-> f.t]
  /\ \E s1 \in DirScenarios, s2 \in SmallScenarios, s3 \in SmallScenarios :
       fs = InitDisk(s1, s2, s3)
  /\ fs0 = fs
  /\ fmtIn = Undefined
  /\ fmtOut = Undefined
  /\ InitProgram

(* ------------------------------ actions -------------------------------- *)
\* one iteration of the loop of fetchTemplateRepositories; when the loop
\* ends, init goes on to the ProjectName prompt
FetchPage ==
  /\ pc = "fetch"
  /\ LET response == SearchResponse(serverTotal, pageSize)
         pushed == templates \o response.items
         hasMore == Len(pushed) < response.total_count
     IN  /\ templates' = pushed
         /\ IF hasMore
            THEN /\ pc' = "fetch"
                 /\ UNCHANGED targetDir
            ELSE /\ pc' = "projectName"
                 /\ targetDir' = IF Truthy(argTargetDir) THEN argTargetDir
                                 ELSE defaultTargetDir
  /\ UNCHANGED <<flags, disk, answers, value, message, asked, steps,
                 entered, aborted>>

\* a keystroke at the ProjectName prompt
ProjectNameState ==
  /\ pc = "projectName"
  /\ \E v \in ProjectNameInputs :
       /\ value' = v
       /\ targetDir' = onState(v)
  /\ UNCHANGED <<flags, disk, answers, pc, templates, message, asked, steps,
                 entered, aborted>>

\* the ProjectName prompt is submitted: the value is value || initial
ProjectNameSubmit ==
  /\ pc = "projectName"
  /\ LET v == IF value # <<>> THEN value ELSE defaultTargetDir
         dir == onState(v)
         next == StepOverwrite(dir)
     IN  /\ value' = v
         /\ targetDir' = dir
         /\ Advance(next)
         /\ asked' = IF next = "overwrite" THEN Resolve(dir) ELSE asked
  /\ UNCHANGED <<flags, disk, answers, templates, aborted>>

ProjectNameAbort ==
  /\ pc = "projectName"
  /\ LET v == IF value # <<>> THEN value ELSE defaultTargetDir
     IN  /\ value' = v
         /\ targetDir' = onState(v)
  /\ Cancel
  /\ UNCHANGED <<flags, disk, answers, templates>>

\* the user answers the OverwriteConfirm prompt
OverwriteAnswer ==
  /\ pc = "overwrite"
  /\ \E b \in {"true", "false"} :
       /\ overwrite' = b
       /\ Advance(overwriteChecker(b, targetDir))
  /\ UNCHANGED <<flags, disk, packageName, template, selectedTemplete,
                 templates, targetDir, value, asked, aborted>>

OverwriteAbort ==
  /\ pc = "overwrite"
  /\ Cancel
  /\ UNCHANGED <<flags, disk, answers, templates, targetDir, value>>

\* what the PackageName prompt submits for the typed text
PackageNameValue(typed) ==
  IF typed # <<>> THEN typed
  ELSE toValidPackageName(getProjectName(targetDir))

\* a submission that passes validate
PackageNameSubmit ==
  /\ pc = "packageName"
  /\ \E typed \in PackageNameInputs :
       /\ isValidPackageName(PackageNameValue(typed))
       /\ packageName' = PackageNameValue(typed)
  /\ Advance(StepTemplate)
  /\ UNCHANGED <<flags, disk, overwrite, template, selectedTemplete,
                 templates, targetDir, value, asked, aborted>>

\* a submission that validate rejects: the prompt stays
PackageNameReject ==
  /\ pc = "packageName"
  /\ \E typed \in PackageNameInputs :
       ~isValidPackageName(PackageNameValue(typed))
  /\ message' = "Invalid package.json name"
  /\ UNCHANGED <<flags, disk, answers, pc, templates, targetDir, value,
                 asked, steps, entered, aborted>>

PackageNameAbort ==
  /\ pc = "packageName"
  /\ Cancel
  /\ UNCHANGED <<flags, disk, answers, templates, targetDir, value>>

\* the user picks one of the choices; with no choice to pick, the prompt
\* has no value to give
TemplateSubmit ==
  /\ pc = "template"
  /\ \E choice \in (IF templates = <<>> THEN {NoTemplate}
                    ELSE Range(templates)) :
       template' = choice
  /\ Advance("scaffold")
  /\ UNCHANGED <<flags, disk, overwrite, packageName, selectedTemplete,
                 templates, targetDir, value, asked, aborted>>

TemplateAbort ==
  /\ pc = "template"
  /\ Cancel
  /\ UNCHANGED <<flags, disk, answers, templates, targetDir, value>>

\* init after the prompts: the removal, the choice of the template and the
\* start of the git child process
Scaffold ==
  /\ pc = "scaffold"
  /\ LET root == pathJoin(cwd, targetDir)
         remove == /\ (overwrite \in {"undefined", "false"} \/ overwrite = "true")
                   /\ existsSyncAt(fs, root)
         sel == IF template # NoTemplate THEN template
                ELSE find(templates, argTemplate)
     IN  /\ fs' = IF remove THEN rmSync(fs, root) ELSE fs
         /\ desc' = KeepDesc(desc, fs')
         /\ log' = IF remove
                   THEN Append(log,
                          [op |-> "rm", loc |-> root,
                           nonEmpty |-> readdirSyncAt(fs, root)
                                          \notin {{}, {DotGit}}])
                   ELSE log
         /\ IF sel = NoTemplate
            THEN /\ pc' = "failed"
                 /\ message' = "Template not available"
                 /\ UNCHANGED selectedTemplete
            ELSE /\ pc' = "cloning"
                 /\ message' = "Clone project template"
                 /\ selectedTemplete' = sel
  /\ UNCHANGED <<flags, overwrite, packageName, template, templates,
                 targetDir, value, asked, steps, entered, aborted>>

\* the shell splits the command line of child_process.exec at whitespace
HasWhitespace(p) == \E i \in 1..Len(p) : p[i] \in Whitespace

\* git clones into a target that is absent or an empty directory, from a
\* working directory that still exists
CloneCanSucceed(dir) ==
  LET target == Resolve(dir)
  IN  /\ ~HasWhitespace(dir)
      /\ (IsAbsolute(dir) \/ existsSyncAt(fs, cwd))
      /\ \A q \in Prefixes(target) \ {target} :
           IF existsSyncAt(fs, q) THEN fs[q] = "dir" ELSE TRUE
      /\ IF existsSyncAt(fs, target)
         THEN fs[target] = "dir" /\ readdirSyncAt(fs, target) = {}
         ELSE TRUE

\* the disk after `git clone <url> <dir>` of a template with these files
CloneInto(d, dir, files) ==
  LET target == Resolve(dir)
  IN  d @@ [q \in Prefixes(target) \cup {Append(target, DotGit)} |-> "dir"]
        @@ [q \in {Append(target, n) : n \in files} |-> "file"]

\* the package.json descriptors after the clone
CloneDesc(d, dir, files) ==
  IF PackageJson \in files
  THEN (Append(Resolve(dir), PackageJson) :> TemplateDescriptor) @@ d
  ELSE d

\* the three fs.rmSync calls that end the callback
Clean(d, root) ==
  rmSync(rmSync(rmSync(d, Append(root, DotGit)),
                Append(root, PackageLock)),
         Append(root, YarnLock))

LogEntry(op, loc) == [op |-> op, loc |-> loc, nonEmpty |-> FALSE]

\* the callback of child_process.exec is given an error
CloneError ==
  /\ pc = "cloning"
  /\ pc' = "cloneFailed"
  /\ message' = "clone error"
  /\ UNCHANGED <<flags, disk, answers, templates, targetDir, value, asked,
                 steps, entered, aborted>>

\* git clones the template, then the callback rewrites package.json and
\* removes .git and the lockfiles
CloneDone ==
  /\ pc = "cloning"
  /\ CloneCanSucceed(targetDir)
  /\ \E files \in SUBSET TemplateFiles :
       LET root == pathJoin(cwd, targetDir)
           fs1 == CloneInto(fs, targetDir, files)
           desc1 == CloneDesc(desc, targetDir, files)
           pkgDir == Append(root, PackageJson)
           rewrite == existsSyncAt(fs1, pkgDir) /\ pkgDir \in DOMAIN desc1
           name == IF Truthy(packageName) THEN packageName
                   ELSE getProjectName(targetDir)
       IN  /\ fs' = Clean(fs1, root)
           /\ desc' = IF rewrite
                      THEN [desc1 EXCEPT ![pkgDir].name = name]
                      ELSE desc1
           /\ log' = log \o <<LogEntry("clone", Resolve(targetDir))>>
                         \o (IF rewrite THEN <<LogEntry("write", pkgDir)>>
                             ELSE <<>>)
                         \o <<LogEntry("clean", root)>>
  /\ pc' = "done"
  /\ message' = "Done."
  /\ UNCHANGED <<flags, answers, templates, targetDir, value, asked, steps,
                 entered, aborted>>

Next ==
  \/ FetchPage
  \/ ProjectNameState
  \/ ProjectNameSubmit
  \/ ProjectNameAbort
  \/ OverwriteAnswer
  \/ OverwriteAbort
  \/ PackageNameSubmit
  \/ PackageNameReject
  \/ PackageNameAbort
  \/ TemplateSubmit
  \/ TemplateAbort
  \/ Scaffold
  \/ CloneError
  \/ CloneDone

Spec == Init /\ [][Next]_vars

(* ----------------- formatTargetDir on every short string --------------- *)
FormatAlphabet == {"a", "/", " ", "\t"}

Strings(n) == UNION {[1..k -> FormatAlphabet] : k \in 0..n}

InitFormat ==
  /\ pc = "format"
  /\ fmtIn \in Strings(MaxLen) \cup {Undefined}
  /\ fmtOut = Undefined
  /\ serverTotal = 0
  /\ pageSize = 1
  /\ argv = [positional |-> Undefined, template |-> Undefined, t |-> Undefined]
  /\ fs = (cwd :> "dir")
  /\ fs0 = fs
  /\ InitProgram

Format ==
  /\ pc = "format"
  /\ fmtOut' = formatTargetDir(fmtIn)
  /\ pc' = "formatted"
  /\ UNCHANGED <<serverTotal, pageSize, argv, fs0, fmtIn, disk, answers,
                 templates, targetDir, value, message, asked, steps, entered,
                 aborted>>

NextFormat == Format

SpecFormat == InitFormat /\ [][NextFormat]_vars

(* ------------------------------ claims --------------------------------- *)
\* the scaffold reached the git child process
ReachedClone == pc \in {"cloning", "cloneFailed", "done"}

\* the location git clones into
CloneTarget == Resolve(targetDir)

\* C1: once the user has answered "no" at OverwriteConfirm or aborted a
\* prompt, the flow has ended with the cancellation message and no
\* filesystem mutation has been or is ever performed: the disk is the disk
\* the program started with.
C1_CancelLeavesDiskUntouched ==
  (overwrite = "false" \/ aborted) =>
    /\ pc = "cancelled"
    /\ message = "Operation cancelled"
    /\ log = <<>>
    /\ fs = fs0
    /\ desc = <<>>

\* a refusal to overwrite a directory that holds a file of the user
C1_Witness ==
  /\ pc = "cancelled"
  /\ overwrite = "false"
  /\ F \in readdirSyncAt(fs, asked)

\* C2 (as claimed): when init ends with the 'Template not available' error,
\* no filesystem mutation has been performed.
C2_ErrorBeforeMutation ==
  message = "Template not available" => (log = <<>> /\ fs = fs0)

\* C3 (as claimed): a non-empty positional argument is the target directory
\* of the overwrite check, the removal and the clone, whatever is entered or
\* defaulted at the ProjectName prompt.
C3_ArgumentWins ==
  (Truthy(argTargetDir) /\ "overwrite" \in steps) => targetDir = argTargetDir

\* the flag value is the name of an entry of the fetched catalog
FlagNamesCatalogEntry ==
  /\ argTemplate # Undefined
  /\ \E e \in Range(templates) : e.name = argTemplate

\* C4: TemplateSelect is entered iff the flag is absent or names no catalog
\* entry, and the template handed to git clone is a member of the fetched
\* catalog: the entry the flag names when it names one, and otherwise the
\* entry chosen at TemplateSelect.
C4_TemplateSelection ==
  /\ "template" \in steps =>
       (("template" \in entered) <=> ~FlagNamesCatalogEntry)
  /\ ReachedClone =>
       /\ selectedTemplete \in Range(templates)
       /\ IF FlagNamesCatalogEntry
          THEN selectedTemplete.name = argTemplate
          ELSE selectedTemplete = template

\* a flag that differs from a catalog name only in case: the prompt is shown
C4_Witness ==
  /\ pc = "cloning"
  /\ argTemplate = <<"T">>
  /\ "template" \in entered
  /\ \E e \in Range(templates) : e.name = <<"t">>

\* C5 (as claimed): after a successful clone into a target that holds a
\* package.json, its name is the PackageNameInput answer when that prompt
\* was entered (exactly when the project name is not a valid package name,
\* the answer being valid), otherwise the project name; the other fields
\* are kept.
C5_DescriptorRenamed ==
  LET file == Append(CloneTarget, PackageJson)
      project == getProjectName(targetDir)
  IN  (pc = "done" /\ file \in DOMAIN fs) =>
        /\ ("packageName" \in entered) <=> ~isValidPackageName(project)
        /\ "packageName" \in entered => isValidPackageName(packageName)
        /\ desc[file].name =
             (IF "packageName" \in entered THEN packageName ELSE project)
        /\ desc[file].other = TemplateDescriptor.other

\* C6 (as claimed): when the clone succeeded and 'Done' was printed, the
\* target directory holds no .git, no package-lock.json and no yarn.lock.
C6_NoGitNoLockfiles ==
  pc = "done" =>
    readdirSyncAt(fs, CloneTarget) \cap {DotGit, PackageLock, YarnLock} = {}

\* the target existed as a directory with an entry other than a lone .git
\* when the ProjectName answer was submitted
TargetNonEmpty0 ==
  /\ CloneTarget \in DOMAIN fs0
  /\ fs0[CloneTarget] = "dir"
  /\ readdirSyncAt(fs0, CloneTarget) \notin {{}, {DotGit}}

\* the target was absent, or a directory that isEmpty calls empty
TargetAbsentOrEmpty0 ==
  \/ CloneTarget \notin DOMAIN fs0
  \/ /\ fs0[CloneTarget] = "dir"
     /\ readdirSyncAt(fs0, CloneTarget) \in {{}, {DotGit}}

\* C7: OverwriteConfirm is entered iff the target directory exists and
\* holds an entry other than a lone .git when the ProjectName answer is
\* submitted; when the target is absent or empty the flow goes straight to
\* the package-name step, with no overwrite answer.
C7_OverwriteAsked ==
  "overwrite" \in steps =>
    /\ ("overwrite" \in entered) <=> TargetNonEmpty0
    /\ TargetAbsentOrEmpty0 =>
         ("packageName" \in steps /\ overwrite = "undefined")

\* a directory that holds only .git is not asked about
C7_Witness ==
  /\ "packageName" \in steps
  /\ "overwrite" \notin entered
  /\ CloneTarget \in DOMAIN fs0
  /\ readdirSyncAt(fs0, CloneTarget) = {DotGit}

\* C8 (as claimed): the list fetchTemplateRepositories returns holds every
\* catalog template exactly once: its length is the server's total and its
\* names are unique.
C8_CatalogExactlyOnce ==
  pc # "fetch" =>
    /\ Len(templates) = serverTotal
    /\ \A i, j \in 1..Len(templates) :
         templates[i].name = templates[j].name => i = j

NoEdgeWhitespace(s) ==
  s = <<>> \/ (s[1] \notin Whitespace /\ s[Len(s)] \notin Whitespace)

NoTrailingSlash(s) == s = <<>> \/ s[Len(s)] # "/"

\* C9 (as claimed): for a defined input the result of formatTargetDir has
\* no leading or trailing whitespace and does not end with '/'; undefined
\* gives undefined.
C9_NoEdgeWhitespaceNoSlash ==
  pc = "formatted" =>
    IF fmtIn = Undefined THEN fmtOut = Undefined
    ELSE NoEdgeWhitespace(fmtOut) /\ NoTrailingSlash(fmtOut)

\* r is s without leading whitespace and without a trailing run of '/' and
\* whitespace, and whitespace ends r only where a '/' follows it in s
IsFormatOf(r, s) ==
  \E i \in 1..(Len(s) + 1), j \in 0..Len(s) :
    /\ r = SubSeq(s, i, j)
    /\ \A k \in 1..(i - 1) : s[k] \in Whitespace
    /\ \A k \in (j + 1)..Len(s) : s[k] \in Whitespace \cup {"/"}
    /\ (r # <<>> /\ r[Len(r)] \in Whitespace) => (j < Len(s) /\ s[j + 1] = "/")

\* C9 (amended): for a defined input the result is the input without its
\* leading whitespace and without a trailing run of '/' and whitespace; it
\* has no leading whitespace and does not end with '/', and it ends with
\* whitespace only where that whitespace is followed by '/' in the input;
\* undefined gives undefined.
C9_Amended ==
  pc = "formatted" =>
    IF fmtIn = Undefined THEN fmtOut = Undefined
    ELSE /\ fmtOut = <<>> \/ fmtOut[1] \notin Whitespace
         /\ NoTrailingSlash(fmtOut)
         /\ IsFormatOf(fmtOut, fmtIn)

\* whitespace before the trailing slash stays
C9_Witness ==
  /\ pc = "formatted"
  /\ fmtIn = <<"a", " ", "/">>
  /\ fmtOut = <<"a", " ">>

\* C10 (as claimed): a non-empty directory is removed only after a "yes" to
\* an OverwriteConfirm asked about that same directory, and git clones into
\* the directory the removal step looked at.
C10_RemovalWasConfirmed ==
  /\ \A i \in 1..Len(log) :
       (log[i].op = "rm" /\ log[i].nonEmpty) =>
         (overwrite = "true" /\ asked = log[i].loc)
  /\ \A i \in 1..Len(log) :
       log[i].op = "clone" => log[i].loc = pathJoin(cwd, targetDir)

====
